---- MODULE Spec2Model ----
(***************************************************************************)
(* JV report bot (src/main.py): the long-poll loop of main(), the intake   *)
(* gate, the session list pending_photos and the completion pipeline       *)
(* process_site / create_pdf_from_images / send_email_with_attachment.     *)
(*                                                                         *)
(* The bot is one sequential thread; pc is its position.  Every call that  *)
(* can raise (the messaging transport, the image library, the file         *)
(* system) either returns or raises; a raise anywhere inside the loop body *)
(* lands in the except clause of main (lines 309-311).                     *)
(***************************************************************************)
EXTENDS Integers, Sequences, FiniteSets, TLC

\* ---------------------------------------------------------------- bounds
MaxUpdates == 3      \* updates the transport ever delivers
MaxClock == 1        \* seconds the wall clock advances
MaxFaults == 2       \* failures the environment injects (raises, refusals)
MaxMultiple == 4     \* image sides go up to MaxMultiple * 1568 pixels

\* ------------------------------------------------------- configuration
\* str(YOUR_CHAT_ID): the environment value, the decimal string "17"
YOUR_CHAT_ID == <<1, 7>>
\* the chats that write to the bot; Operator is the one whose id is configured
Operator == 17
ChatIds == {Operator, 7}
SiteIds == {"A", "B"}
RECIPIENTS == << "workspaceegd@gmail.com", "workspaceegd@gmail.com",
                 "workspaceegd@gmail.com", "workspaceegd@gmail.com",
                 "workspaceegd@gmail.com", "workspaceegd@gmail.com",
                 "workspaceegd@gmail.com" >>

\* str(chat_id) of a non-negative integer: its decimal digits
RECURSIVE Str(_)
Str(n) == IF n < 10 THEN <<n>> ELSE Append(Str(n \div 10), n % 10)

\* the template used without .format(): the placeholder stays in the subject
EMAIL_SUBJECT_Unformatted(site_id) ==
    << "Submission of Joint Visit (JV) Documents - Indus ID: ", "{site_id}" >>

\* EMAIL_SUBJECT.format(site_id=site_id): the template's text, then the id
EMAIL_SUBJECT(site_id) ==
    << "Submission of Joint Visit (JV) Documents - Indus ID: ", site_id >>

\* -------------------------------------------------------------- inputs
\* message['text'].split(): a text is the sequence of its words; <<>> is a
\* message without a 'text' key.
Texts == {<<"/siteid", s>> : s \in SiteIds} \cup {<<"/siteid">>, <<"hello">>}
Bodies == {[photo |-> TRUE, text |-> <<>>]}
            \cup {[photo |-> FALSE, text |-> t] : t \in Texts}
\* what a stranger sends: a photo, a well-formed command, another text
StrangerBodies == {b \in Bodies : b.photo \/ b.text \in {<<"/siteid", "A">>, <<"hello">>}}
Inputs == {[has_message |-> TRUE, chat |-> c, photo |-> b.photo, text |-> b.text] :
              c \in {Operator}, b \in Bodies}
            \cup {[has_message |-> TRUE, chat |-> c, photo |-> b.photo, text |-> b.text] :
              c \in ChatIds \ {Operator}, b \in StrangerBodies}
            \cup {[has_message |-> FALSE, chat |-> 0, photo |-> FALSE, text |-> <<>>]}

Update(id, in) == [update_id |-> id, has_message |-> in.has_message,
                   chat |-> in.chat, photo |-> in.photo, text |-> in.text]
NoUpdate == [update_id |-> 0, has_message |-> FALSE, chat |-> 0,
             photo |-> FALSE, text |-> <<>>]

\* a name made of the time alone: f"photo_{int(time.time())}.jpg"
FilepathByTime(t, n) == <<t, 0>>

\* f"photo_{int(time.time())}_{len(pending_photos)}.jpg" under DOWNLOAD_DIR
Filepath(t, n) == <<t, n>>
Paths == (0..MaxClock) \X (0..MaxUpdates)

VARIABLES
    pc,              \* position of the main thread
    server,          \* updates the transport holds, not yet acknowledged
    nextId,          \* id the transport gives the next update
    updates,         \* rest of updates.get('result') in the for loop
    last_update_id,  \* bot.last_update_id
    pending_photos,  \* the list pending_photos of main
    clock,           \* int(time.time()) as last read
    disk,            \* DOWNLOAD_DIR: path -> file_id stored there, 0 = no file
    pdfs,            \* PDF_OUTPUT_DIR: site_id -> the document written
    archive,         \* ARCHIVE_DIR: <<site_id, path>> moved there
    sublog,          \* LOG_FILE, the submissions log
    cur,             \* locals of the running process_site call
    h,               \* what the handling of the current update did so far
    accepted,        \* paths appended since the last process_site call
    faults,          \* failures injected so far
    image,           \* the file compress_image works on: size, and what became of it
    handled,         \* ids of the updates the for loop took, in the order taken
    dropped          \* ids of fetched updates the except clause cut the loop off from

vars == <<pc, server, nextId, updates, last_update_id, pending_photos, clock,
          disk, pdfs, archive, sublog, cur, h, accepted, faults, image,
          handled, dropped>>

NoCur == [chat_id |-> 0, site_id |-> "", photo_files |-> <<>>, i |-> 0,
          pages |-> <<>>, mail_ok |-> FALSE]

\* the record of one update's handling, started when the loop takes it
Begin(u) == [u |-> u, before |-> pending_photos, sent |-> <<>>, mails |-> <<>>,
             download |-> "none", path |-> <<0, 0>>, written |-> FALSE,
             doc |-> <<>>, drained |-> <<>>, fresh |-> <<>>, logs |-> <<>>,
             errors |-> <<>>, raised |-> "", ended |-> FALSE,
             log_before |-> sublog, disk_before |-> disk,
             archive_before |-> archive, steps |-> <<>>]

Notice(chat, kind, arg) == [chat |-> chat, kind |-> kind, arg |-> arg]

\* no file is being compressed
NoImage == [width |-> 0, height |-> 0, heavy |-> FALSE, readable |-> FALSE,
            state |-> "none", returned |-> FALSE]

\* the bot after main() has set up: nothing received, nothing pending
BotInit ==
    /\ pc = "poll"
    /\ server = <<>>
    /\ nextId = 1
    /\ updates = <<>>
    /\ last_update_id = 0
    /\ pending_photos = <<>>
    /\ clock = 0
    /\ disk = [p \in Paths |-> 0]
    /\ pdfs = [s \in SiteIds |-> [written |-> FALSE, pages |-> <<>>]]
    /\ archive = {}
    /\ sublog = <<>>
    /\ cur = NoCur
    /\ h = Begin(NoUpdate)
    /\ accepted = <<>>
    /\ faults = 0
    /\ handled = <<>>
    /\ dropped = {}

Init ==
    /\ BotInit
    /\ image = NoImage

\* ------------------------------------------------------- the except clause
\* except Exception as e: logging.error(f"Bot error: ..."); time.sleep(5)
\* The for loop over the fetched updates is abandoned; the while loop polls
\* again.  hh is the handling record as the raising call left it; injected
\* tells a failure of the environment from one the code raises by itself.
\* a loop without the try: the exception leaves main
ExceptStops(hh, where, injected) ==
    /\ injected => faults < MaxFaults
    /\ faults' = IF injected THEN faults + 1 ELSE faults
    /\ h' = [hh EXCEPT !.raised = where, !.ended = TRUE]
    /\ dropped' = dropped \cup ({updates[k].update_id : k \in 1..Len(updates)}
                                    \ {hh.u.update_id})
    /\ updates' = <<>>
    /\ cur' = NoCur
    /\ pc' = "stopped"

Except(hh, where, injected) ==
    /\ injected => faults < MaxFaults
    /\ faults' = IF injected THEN faults + 1 ELSE faults
    /\ h' = [hh EXCEPT !.raised = where, !.ended = TRUE,
                       !.errors = Append(@, "Bot error")]
    /\ dropped' = dropped \cup ({updates[k].update_id : k \in 1..Len(updates)}
                                    \ {hh.u.update_id})
    /\ updates' = <<>>
    /\ cur' = NoCur
    /\ pc' = "poll"

\* a call of bot.send_message / bot.send_document, as the handling records it
Sent(hh, chat, kind, arg) ==
    [hh EXCEPT !.sent = Append(@, Notice(chat, kind, arg))]

\* a step of the completion pipeline, as the handling records it
Step(hh, name) == [hh EXCEPT !.steps = Append(@, name)]

\* ------------------------------------------------------------ environment
\* somebody sends the bot a message (or another kind of update happens)
Arrive ==
    /\ pc = "poll"
    /\ nextId <= MaxUpdates
    /\ \E in \in Inputs : server' = Append(server, Update(nextId, in))
    /\ nextId' = nextId + 1
    /\ UNCHANGED <<pc, updates, last_update_id, pending_photos, clock, disk, pdfs,
                   archive, sublog, cur, h, accepted, faults>>
    /\ UNCHANGED <<image, handled, dropped>>

\* ---------------------------------------------------------- the poll loop
\* getUpdates with an offset: the transport forgets every update below the
\* offset and answers with the others, in id order
GetUpdates(offset) == SelectSeq(server, LAMBDA u : u.update_id >= offset)

\* a poll that asks again from the cursor itself
OffsetAtCursor == last_update_id

\* offset=bot.last_update_id + 1
Offset == last_update_id + 1

\* updates = bot.get_updates(offset=bot.last_update_id + 1), answered ok
Poll ==
    /\ pc = "poll"
    /\ updates' = GetUpdates(Offset)
    /\ server' = GetUpdates(Offset)
    /\ pc' = "loop"
    /\ UNCHANGED <<nextId, last_update_id, pending_photos, clock, disk, pdfs,
                   archive, sublog, cur, h, accepted, faults>>
    /\ UNCHANGED <<image, handled, dropped>>

\* get_updates answers not ok (time.sleep(1); continue) or raises (the
\* except clause logs and sleeps): the loop polls again, nothing else changed
PollFails ==
    /\ pc = "poll"
    /\ UNCHANGED vars

\* the for loop has no update left: back to while True
LoopEnd ==
    /\ pc = "loop"
    /\ updates = <<>>
    /\ pc' = "poll"
    /\ UNCHANGED <<server, nextId, updates, last_update_id, pending_photos, clock,
                   disk, pdfs, archive, sublog, cur, h, accepted, faults>>
    /\ UNCHANGED <<image, handled, dropped>>

\* for update in updates.get('result', []):
\*     bot.last_update_id = update['update_id']
Take ==
    /\ pc = "loop"
    /\ updates # <<>>
    /\ last_update_id' = Head(updates).update_id
    /\ handled' = Append(handled, Head(updates).update_id)

\* `continue`, or the end of the loop body: on to the next update.  refused
\* marks a call that the environment made fail without raising.
Continue(hh, refused) ==
    /\ refused => faults < MaxFaults
    /\ faults' = IF refused THEN faults + 1 ELSE faults
    /\ h' = [hh EXCEPT !.ended = TRUE]
    /\ updates' = Tail(updates)
    /\ pc' = "loop"
    /\ UNCHANGED <<cur, dropped>>

\* ---------------------------------------------------------- the intake gate
\* a gate that compares the tail of the configured id: "17".endswith(str(chat_id))
IsAuthorizedByTail(chat_id) ==
    \E k \in 1..Len(YOUR_CHAT_ID) :
        SubSeq(YOUR_CHAT_ID, k, Len(YOUR_CHAT_ID)) = Str(chat_id)

\* str(chat_id) != str(YOUR_CHAT_ID), negated
IsAuthorized(chat_id) == Str(chat_id) = YOUR_CHAT_ID

\* 'text' in message and message['text'].startswith('/siteid')
IsSiteIdCommand(u) == u.text # <<>> /\ u.text[1] = "/siteid"

\* a gate without the emptiness check
NoPhotosUnchecked(photos) == FALSE

\* `not pending_photos`
NoPhotos(photos) == photos = <<>>

\* pending_photos.copy()
Copy(photos) == [k \in 1..Len(photos) |-> photos[k]]

\* if 'message' not in update: continue
SkipNoMessage ==
    /\ Take
    /\ ~Head(updates).has_message
    /\ Continue(Begin(Head(updates)), FALSE)
    /\ UNCHANGED <<server, nextId, pending_photos, clock, disk, pdfs, archive,
                   sublog, accepted>>
    /\ UNCHANGED image

\* if str(chat_id) != str(YOUR_CHAT_ID):
\*     bot.send_message(chat_id, "Unauthorized access."); continue
RejectUnauthorized ==
    /\ Take
    /\ LET u == Head(updates)
           hh == Sent(Begin(u), u.chat, "Unauthorized", 0)
       IN /\ u.has_message
          /\ ~IsAuthorized(u.chat)
          /\ \/ Continue(hh, FALSE)
             \/ Except(hh, "send_message", TRUE)
    /\ UNCHANGED <<server, nextId, pending_photos, clock, disk, pdfs, archive,
                   sublog, accepted>>
    /\ UNCHANGED image

\* if 'photo' in message: ... if bot.download_photo(file_id, filepath):
\*     pending_photos.append(filepath)
\* int(time.time()) reads a clock that never runs backwards.
\* download_photo returns True with the file written, returns False (getFile
\* answered not ok) or raises (network, file system)
HandlePhoto ==
    /\ Take
    /\ clock' \in clock..MaxClock
    /\ LET u == Head(updates)
           filepath == Filepath(clock', Len(pending_photos))
           hh == [Begin(u) EXCEPT !.path = filepath]
       IN /\ u.has_message
          /\ IsAuthorized(u.chat)
          /\ u.photo
          /\ \/ /\ disk' = [disk EXCEPT ![filepath] = u.update_id]
                /\ pending_photos' = Append(pending_photos, filepath)
                /\ accepted' = Append(accepted, filepath)
                /\ Continue([hh EXCEPT !.download = "ok"], FALSE)
             \/ /\ Continue([hh EXCEPT !.download = "false"], TRUE)
                /\ UNCHANGED <<disk, pending_photos, accepted>>
             \/ /\ Except([hh EXCEPT !.download = "raised"], "download_photo", TRUE)
                /\ UNCHANGED <<disk, pending_photos, accepted>>
    /\ UNCHANGED <<server, nextId, pdfs, archive, sublog>>
    /\ UNCHANGED image

\* a message of the operator that is neither a photo nor a /siteid text:
\* no branch of the loop body takes it
IgnoreOther ==
    /\ Take
    /\ LET u == Head(updates)
       IN /\ u.has_message
          /\ IsAuthorized(u.chat)
          /\ ~u.photo
          /\ ~IsSiteIdCommand(u)
          /\ Continue(Begin(u), FALSE)
    /\ UNCHANGED <<server, nextId, pending_photos, clock, disk, pdfs, archive,
                   sublog, accepted>>
    /\ UNCHANGED image

\* a handler that drops the session when the command is malformed
SiteIdNoArgumentClears ==
    /\ Take
    /\ LET u == Head(updates)
       IN /\ u.has_message
          /\ IsAuthorized(u.chat)
          /\ ~u.photo
          /\ IsSiteIdCommand(u)
          /\ Len(u.text) < 2
          /\ Except(Begin(u), "IndexError", FALSE)
    /\ pending_photos' = <<>>
    /\ UNCHANGED <<server, nextId, clock, disk, pdfs, archive, sublog, accepted>>
    /\ UNCHANGED image

\* site_id = message['text'].split()[1] on a text of one word: IndexError
SiteIdNoArgument ==
    /\ Take
    /\ LET u == Head(updates)
       IN /\ u.has_message
          /\ IsAuthorized(u.chat)
          /\ ~u.photo
          /\ IsSiteIdCommand(u)
          /\ Len(u.text) < 2
          /\ Except(Begin(u), "IndexError", FALSE)
    /\ UNCHANGED <<server, nextId, pending_photos, clock, disk, pdfs, archive,
                   sublog, accepted>>
    /\ UNCHANGED image

\* if not pending_photos:
\*     bot.send_message(chat_id, "No photos received yet!"); continue
SiteIdNoPhotos ==
    /\ Take
    /\ LET u == Head(updates)
           hh == Sent(Begin(u), u.chat, "NoPhotos", 0)
       IN /\ u.has_message
          /\ IsAuthorized(u.chat)
          /\ ~u.photo
          /\ IsSiteIdCommand(u)
          /\ Len(u.text) >= 2
          /\ NoPhotos(pending_photos)
          /\ \/ Continue(hh, FALSE)
             \/ Except(hh, "send_message", TRUE)
    /\ UNCHANGED <<server, nextId, pending_photos, clock, disk, pdfs, archive,
                   sublog, accepted>>
    /\ UNCHANGED image

\* process_site(bot, chat_id, site_id, pending_photos.copy()) is called
SiteIdProcess ==
    /\ Take
    /\ LET u == Head(updates)
           photo_files == Copy(pending_photos)
       IN /\ u.has_message
          /\ IsAuthorized(u.chat)
          /\ ~u.photo
          /\ IsSiteIdCommand(u)
          /\ Len(u.text) >= 2
          /\ ~NoPhotos(pending_photos)
          /\ cur' = [NoCur EXCEPT !.chat_id = u.chat, !.site_id = u.text[2],
                                  !.photo_files = photo_files]
          /\ h' = [Begin(u) EXCEPT !.drained = photo_files, !.fresh = accepted]
          /\ accepted' = <<>>
          /\ updates' = Tail(updates)
          /\ pc' = "start"
    /\ UNCHANGED <<server, nextId, pending_photos, clock, disk, pdfs, archive,
                   sublog, faults>>
    /\ UNCHANGED <<image, dropped>>

\* ------------------------------------------------- the completion pipeline
\* the call returned: on to the next statement of the pipeline
Proceed(hh, next, cc) ==
    /\ h' = hh
    /\ cur' = cc
    /\ pc' = next
    /\ UNCHANGED <<updates, faults, dropped>>

\* process_site: bot.send_message(chat_id, "Starting Processing ...")
Starting ==
    /\ pc = "start"
    /\ LET hh == Sent(h, cur.chat_id, "Starting", Len(cur.photo_files))
       IN \/ Proceed(hh, "progress", cur)
          \/ Except(hh, "send_message", TRUE)
    /\ UNCHANGED <<server, nextId, last_update_id, pending_photos, clock, disk,
                   pdfs, archive, sublog, accepted>>
    /\ UNCHANGED <<image, handled>>

\* create_pdf_from_images: progress_msg = bot.send_message(...);
\* message_id = progress_msg['result']['message_id']
ProgressMessage ==
    /\ pc = "progress"
    /\ LET hh == Sent(h, cur.chat_id, "Progress", Len(cur.photo_files))
       IN \/ Proceed(hh, "compress", cur)
          \/ Except(hh, "send_message", TRUE)
    /\ UNCHANGED <<server, nextId, last_update_id, pending_photos, clock, disk,
                   pdfs, archive, sublog, accepted>>
    /\ UNCHANGED <<image, handled>>

\* for i, img_path in enumerate(image_files, 1): compress_image(img_path, ...)
\* on the next image; compress_image catches its own exceptions, and so does
\* bot.edit_message.  After the last image the second loop starts.
\* a first loop that stops after its first image
CompressFirstOnly ==
    /\ pc = "compress"
    /\ IF cur.i < Len(cur.photo_files) /\ cur.i < 1
       THEN Proceed(Step(h, "normalize"), "compress", [cur EXCEPT !.i = @ + 1])
       ELSE Proceed(h, "compose", [cur EXCEPT !.i = 0])
    /\ UNCHANGED <<server, nextId, last_update_id, pending_photos, clock, disk,
                   pdfs, archive, sublog, accepted>>
    /\ UNCHANGED <<image, handled>>

Compress ==
    /\ pc = "compress"
    /\ IF cur.i < Len(cur.photo_files)
       THEN Proceed(Step(h, "normalize"), "compress", [cur EXCEPT !.i = @ + 1])
       ELSE Proceed(h, "compose", [cur EXCEPT !.i = 0])
    /\ UNCHANGED <<server, nextId, last_update_id, pending_photos, clock, disk,
                   pdfs, archive, sublog, accepted>>
    /\ UNCHANGED <<image, handled>>

\* a writer that puts the new page in front (insert_page at index 0)
AddPageInFront(writer, img) == <<img>> \o writer

\* writer.add_page(temp_pdf.pages[0]): the page drawn from img is appended
AddPage(writer, img) == Append(writer, img)

\* for i, img_path in enumerate(image_files, 1): Image.open(img_path),
\* drawImage, writer.add_page on the next image; opening a file that is
\* missing raises, and opening or drawing any file may raise
ComposePage ==
    /\ pc = "compose"
    /\ cur.i < Len(cur.photo_files)
    /\ LET img_path == cur.photo_files[cur.i + 1]
       IN \/ /\ disk[img_path] # 0
             /\ Proceed(Step(h, "page"), "compose", [cur EXCEPT !.i = @ + 1,
                                                  !.pages = AddPage(@, img_path)])
          \/ Except(h, "create_pdf_from_images", disk[img_path] # 0)
    /\ UNCHANGED <<server, nextId, last_update_id, pending_photos, clock, disk,
                   pdfs, archive, sublog, accepted>>
    /\ UNCHANGED <<image, handled>>

\* with open(output_pdf_path, "wb") as f: writer.write(f)
WriteDocument ==
    /\ pc = "compose"
    /\ cur.i >= Len(cur.photo_files)
    /\ \/ /\ pdfs' = [pdfs EXCEPT ![cur.site_id] =
                                    [written |-> TRUE, pages |-> cur.pages]]
          /\ Proceed(Step([h EXCEPT !.written = TRUE, !.doc = cur.pages], "write"),
                     "mail", cur)
       \/ /\ Except(h, "create_pdf_from_images", TRUE)
          /\ UNCHANGED pdfs
    /\ UNCHANGED <<server, nextId, last_update_id, pending_photos, clock, disk,
                   archive, sublog, accepted>>
    /\ UNCHANGED <<image, handled>>

\* the message send_email_with_attachment hands to the SMTP session
Mail(site_id, ok) == [to |-> RECIPIENTS, subject |-> EMAIL_SUBJECT(site_id),
                      attachment |-> site_id, ok |-> ok]

\* if send_email_with_attachment(RECIPIENTS, subject, body, pdf_path):
\* returns True, or logs "Email error" and returns False
SendEmail ==
    /\ pc = "mail"
    /\ \E ok \in BOOLEAN :
          /\ ~ok => faults < MaxFaults
          /\ faults' = IF ok THEN faults ELSE faults + 1
          /\ h' = Step([h EXCEPT !.mails = Append(@, Mail(cur.site_id, ok)),
                                 !.errors = IF ok THEN @
                                            ELSE Append(@, "Email error")],
                       "mail")
          /\ cur' = [cur EXCEPT !.mail_ok = ok]
    /\ pc' = "notify"
    /\ UNCHANGED <<server, nextId, updates, last_update_id, pending_photos, clock,
                   disk, pdfs, archive, sublog, accepted>>
    /\ UNCHANGED <<image, handled, dropped>>

\* bot.edit_message(... "COMPLETED!"); bot.send_document(chat_id, pdf_path, ...)
NotifySuccess ==
    /\ pc = "notify"
    /\ cur.mail_ok
    /\ LET hh == Step(Sent(Sent(h, cur.chat_id, "Completed", Len(cur.photo_files)),
                           cur.chat_id, "Document", 0), "notify")
       IN \/ Proceed(hh, "log", cur)
          \/ Except(hh, "send_document", TRUE)
    /\ UNCHANGED <<server, nextId, last_update_id, pending_photos, clock, disk,
                   pdfs, archive, sublog, accepted>>
    /\ UNCHANGED <<image, handled>>

\* bot.send_message(chat_id, "Error sending email. Check bot.log for details.")
NotifyFailure ==
    /\ pc = "notify"
    /\ ~cur.mail_ok
    /\ LET hh == Step(Sent(h, cur.chat_id, "EmailError", 0), "notify")
       IN \/ Proceed(hh, "log", cur)
          \/ Except(hh, "send_message", TRUE)
    /\ UNCHANGED <<server, nextId, last_update_id, pending_photos, clock, disk,
                   pdfs, archive, sublog, accepted>>
    /\ UNCHANGED <<image, handled>>

\* f"{timestamp} | Site ID: {site_id} | Photos: {photo_count} | Status: {status}"
LogLine(site_id, photo_count, status) ==
    [site_id |-> site_id, photos |-> photo_count, status |-> status]

\* log_submission(site_id, photo_count, "Success" / "Email Error")
LogSubmission ==
    /\ pc = "log"
    /\ LET line == LogLine(cur.site_id, Len(cur.photo_files),
                           IF cur.mail_ok THEN "Success" ELSE "Email Error")
       IN /\ sublog' = Append(sublog, line)
          /\ Proceed(Step([h EXCEPT !.logs = Append(@, line)], "log"),
                     IF cur.mail_ok THEN "archive" ELSE "clear", cur)
    /\ UNCHANGED <<server, nextId, last_update_id, pending_photos, clock, disk,
                   pdfs, archive, accepted>>
    /\ UNCHANGED <<image, handled>>

\* for photo in photo_files: if os.path.exists(photo): os.rename(photo, ...)
Archive ==
    /\ pc = "archive"
    /\ LET moved == {cur.photo_files[k] : k \in 1..Len(cur.photo_files)}
                        \cap {p \in Paths : disk[p] # 0}
       IN /\ disk' = [p \in Paths |-> IF p \in moved THEN 0 ELSE disk[p]]
          /\ archive' = archive \cup {<<cur.site_id, p>> : p \in moved}
    /\ Proceed(Step(h, "archive"), "clear", cur)
    /\ UNCHANGED <<server, nextId, last_update_id, pending_photos, clock, pdfs,
                   sublog, accepted>>
    /\ UNCHANGED <<image, handled>>

\* process_site returned: pending_photos.clear(), and the loop goes on
Clear ==
    /\ pc = "clear"
    /\ pending_photos' = <<>>
    /\ h' = Step([h EXCEPT !.ended = TRUE], "clear")
    /\ cur' = NoCur
    /\ pc' = "loop"
    /\ UNCHANGED <<server, nextId, updates, last_update_id, clock, disk, pdfs,
                   archive, sublog, accepted, faults>>
    /\ UNCHANGED <<image, handled, dropped>>

Next ==
    \/ Arrive
    \/ Poll
    \/ PollFails
    \/ LoopEnd
    \/ SkipNoMessage
    \/ RejectUnauthorized
    \/ HandlePhoto
    \/ IgnoreOther
    \/ SiteIdNoArgument
    \/ SiteIdNoPhotos
    \/ SiteIdProcess
    \/ Starting
    \/ ProgressMessage
    \/ Compress
    \/ ComposePage
    \/ WriteDocument
    \/ SendEmail
    \/ NotifySuccess
    \/ NotifyFailure
    \/ LogSubmission
    \/ Archive
    \/ Clear

Spec == Init /\ [][Next]_vars

\* the steps of the bot's own thread: everything but the arrival of updates
\* and the answer of the transport to a poll
Run ==
    \/ LoopEnd
    \/ SkipNoMessage
    \/ RejectUnauthorized
    \/ HandlePhoto
    \/ IgnoreOther
    \/ SiteIdNoArgument
    \/ SiteIdNoPhotos
    \/ SiteIdProcess
    \/ Starting
    \/ ProgressMessage
    \/ Compress
    \/ ComposePage
    \/ WriteDocument
    \/ SendEmail
    \/ NotifySuccess
    \/ NotifyFailure
    \/ LogSubmission
    \/ Archive
    \/ Clear

\* the thread keeps running (every call returns or raises, time.sleep ends),
\* and the transport eventually answers a poll with what it holds
LiveSpec == Init /\ [][Next]_vars /\ WF_vars(Run) /\ WF_vars(Poll)

\* ------------------------------------------------------ the image normalizer
\* compress_image(image_path, max_size_mb, quality, max_dimension), lines
\* 145-170.  Python computes the new side as int(side * (max_dimension / longer))
\* in double precision: the quotient is rounded to 53 significant bits, the
\* product is rounded again, and int() drops the fraction.  A double is held
\* here as its significant bits (most significant first) and the exponent of
\* the last one: value = bits * 2^exp.
MAX_IMAGE_DIMENSION == 2048
DoublePrecision == 53

RECURSIVE IntBits(_)
IntBits(n) == IF n = 0 THEN <<>> ELSE Append(IntBits(n \div 2), n % 2)

RECURSIVE BitsInt(_)
BitsInt(bits) ==
    IF bits = <<>> THEN 0
    ELSE 2 * BitsInt(SubSeq(bits, 1, Len(bits) - 1)) + bits[Len(bits)]

RECURSIVE Pow2(_)
Pow2(k) == IF k = 0 THEN 1 ELSE 2 * Pow2(k - 1)

\* bits + 1, the carry running to the front
RECURSIVE Increment(_)
Increment(bits) ==
    IF bits = <<>> THEN <<1>>
    ELSE IF bits[Len(bits)] = 0
         THEN Append(SubSeq(bits, 1, Len(bits) - 1), 1)
         ELSE Append(Increment(SubSeq(bits, 1, Len(bits) - 1)), 0)

\* round to nearest, ties to even, at DoublePrecision bits; inexact says that
\* the value has more below the bits given
RoundDouble(bits, exp, inexact) ==
    IF Len(bits) <= DoublePrecision
    THEN [bits |-> bits, exp |-> exp]
    ELSE LET kept == SubSeq(bits, 1, DoublePrecision)
             guard == bits[DoublePrecision + 1]
             sticky == inexact \/ \E k \in (DoublePrecision + 2)..Len(bits) : bits[k] = 1
             up == guard = 1 /\ (sticky \/ kept[DoublePrecision] = 1)
         IN [bits |-> IF up THEN Increment(kept) ELSE kept,
             exp |-> exp + Len(bits) - DoublePrecision]

\* long division: the bits of rem / d that follow `bits`, until one bit more
\* than the precision is known
RECURSIVE DivideBits(_, _, _, _)
DivideBits(rem, d, bits, exp) ==
    IF Len(bits) > DoublePrecision
    THEN RoundDouble(bits, exp, rem # 0)
    ELSE LET bit == IF 2 * rem >= d THEN 1 ELSE 0
         IN DivideBits(2 * rem - bit * d, d,
                       IF bits = <<>> /\ bit = 0 THEN <<>> ELSE Append(bits, bit),
                       exp - 1)

\* n / d of two positive ints, as Python's true division rounds it
FloatDiv(n, d) == DivideBits(n % d, d, IntBits(n \div d), 0)

\* bits * k, worked from the last bit to the first: out holds the bits of the
\* product found so far, one for each bit of `bits` already multiplied
RECURSIVE TimesBits(_, _, _, _)
TimesBits(bits, k, carry, out) ==
    IF Len(out) = Len(bits) THEN IntBits(carry) \o out
    ELSE LET digit == bits[Len(bits) - Len(out)] * k + carry
         IN TimesBits(bits, k, digit \div 2, <<digit % 2>> \o out)

\* k * x of an int and a double, rounded
FloatMul(k, x) == RoundDouble(TimesBits(x.bits, k, 0, <<>>), x.exp, FALSE)

\* int(x) of a non-negative double
FloatInt(x) ==
    IF x.exp >= 0 THEN BitsInt(x.bits) * Pow2(x.exp)
    ELSE IF Len(x.bits) + x.exp <= 0 THEN 0
    ELSE BitsInt(SubSeq(x.bits, 1, Len(x.bits) + x.exp))

\* int(side * (max_dimension / longer))
Scale(side, longer, max_dimension) ==
    FloatInt(FloatMul(side, FloatDiv(max_dimension, longer)))

\* lines 157-162: the size the image is resized to
NewSize(width, height, max_dimension) ==
    IF width > height
    THEN [width |-> max_dimension, height |-> Scale(height, width, max_dimension)]
    ELSE [width |-> Scale(width, height, max_dimension), height |-> max_dimension]

\* the files compress_image is given: sides around the maximum, small sides,
\* and multiples of 1568; heavy: the file is larger than max_size_mb;
\* readable: Image.open can decode it
Sides == {1, 49} \cup {MAX_IMAGE_DIMENSION + d : d \in {-1, 0, 1}}
            \cup {1568 * k : k \in 1..MaxMultiple}
Images == {[width |-> w, height |-> hh, heavy |-> b, readable |-> r,
            state |-> "downloaded", returned |-> FALSE] :
              w \in Sides, hh \in Sides, b \in BOOLEAN, r \in BOOLEAN}

\* compress_image on the file: what the file is afterwards and what is
\* returned.  Image.open of an undecodable file raises, and Image.resize to a
\* size with a side of 0 raises ("height and width must be > 0"): the except
\* clause logs and returns False with the file as it was.
compress_image(img, max_dimension) ==
    LET oversized == img.width > max_dimension \/ img.height > max_dimension
        size == IF oversized THEN NewSize(img.width, img.height, max_dimension)
                ELSE [width |-> img.width, height |-> img.height]
    IN IF ~img.readable \/ size.width <= 0 \/ size.height <= 0
       THEN [img EXCEPT !.state = "failed", !.returned = FALSE]
       ELSE IF img.heavy \/ oversized
       THEN [img EXCEPT !.width = size.width, !.height = size.height,
                        !.state = "saved", !.returned = TRUE]
       ELSE [img EXCEPT !.state = "kept", !.returned = FALSE]

\* compress_image(img_path, MAX_IMAGE_SIZE_MB, COMPRESSION_QUALITY,
\*                MAX_IMAGE_DIMENSION) on one downloaded file
CompressImage ==
    /\ image.state = "downloaded"
    /\ image' = compress_image(image, MAX_IMAGE_DIMENSION)
    /\ UNCHANGED <<pc, server, nextId, updates, last_update_id, pending_photos,
                   clock, disk, pdfs, archive, sublog, cur, h, accepted, faults,
                   handled, dropped>>

\* the normalizer alone, on every file of Images
NormalizerInit ==
    /\ BotInit
    /\ image \in Images

NormalizerSpec == NormalizerInit /\ [][CompressImage]_vars

\* ====================================================================
\* The claims.  h is the record of the update the loop took last: h.u the
\* update, h.before the session list when the loop took it, h.ended whether
\* its handling is over (by `continue`, by the end of the loop body or in the
\* except clause).
\* ====================================================================
Range(seq) == {seq[k] : k \in 1..Len(seq)}

\* a message from a chat other than the configured one
FromStranger(u) == u.has_message /\ u.chat # Operator

\* a photo message of the operator
OperatorPhoto(u) == u.has_message /\ u.chat = Operator /\ u.photo

\* a completion command of the operator: "/siteid <identifier>"
CompletionCommand(u) ==
    /\ u.has_message
    /\ u.chat = Operator
    /\ ~u.photo
    /\ Len(u.text) >= 2
    /\ u.text[1] = "/siteid"

\* the handling called send_message / send_document with this notice
Notified(chat, kind, arg) == Notice(chat, kind, arg) \in Range(h.sent)

\* the thread is inside process_site
InPipeline == pc \in {"start", "progress", "compress", "compose", "mail",
                      "notify", "log", "archive", "clear"}

\* C1: a message from a chat other than the configured one, whatever its
\* payload, leaves pending_photos as it was, starts no download, no document
\* and no mail, and the handler sends the rejection notice to that chat.
C1_StrangerRejected ==
    FromStranger(h.u) =>
        /\ pending_photos = h.before
        /\ h.download = "none"
        /\ h.drained = <<>> /\ ~h.written /\ h.mails = <<>>
        /\ ~InPipeline
        /\ h.ended => Notified(h.u.chat, "Unauthorized", 0)

\* C1 happens: a stranger's photo was handled while photos were pending
C1_Witness ==
    /\ h.ended
    /\ FromStranger(h.u)
    /\ h.u.photo
    /\ h.before # <<>>

\* C2 as claimed: once a completion command that found photos has been
\* handled, pending_photos is empty, however the pipeline went.
C2_ClearedAfterCommand ==
    (h.ended /\ CompletionCommand(h.u) /\ h.before # <<>>) => pending_photos = <<>>

\* C3: a completion command that finds pending_photos empty writes no
\* document, sends no mail, leaves pending_photos empty, and the handler sends
\* the "no photos" notice to the operator.
C3_EmptyBatchRefused ==
    (CompletionCommand(h.u) /\ h.before = <<>>) =>
        /\ pending_photos = <<>>
        /\ h.drained = <<>> /\ ~h.written /\ h.mails = <<>>
        /\ ~InPipeline
        /\ h.ended => Notified(Operator, "NoPhotos", 0)

\* C3 happens: a completion command was handled with nothing pending, after
\* an earlier batch had been processed
C3_Witness ==
    /\ h.ended
    /\ CompletionCommand(h.u)
    /\ h.before = <<>>
    /\ sublog # <<>>

\* C4: the document a completion command writes has one page per image that
\* was in pending_photos when the command was taken, in the same order, and
\* it is the file stored under the command's identifier.
C4_PagePerImageInOrder ==
    (CompletionCommand(h.u) /\ h.written) =>
        /\ Len(h.doc) = Len(h.before)
        /\ \A k \in 1..Len(h.doc) : h.doc[k] = h.before[k]
        /\ ~h.ended => pdfs[h.u.text[2]] = [written |-> TRUE, pages |-> h.doc]

\* C4 happens: a document of two different images was written
C4_Witness ==
    /\ CompletionCommand(h.u)
    /\ h.written
    /\ Len(h.doc) = 2
    /\ h.doc[1] # h.doc[2]

\* C5 as claimed: the batch a completion command hands to the pipeline is
\* exactly the photos accepted since the previous completion command.
C5_DrainedOnce ==
    (CompletionCommand(h.u) /\ h.drained # <<>>) => h.drained = h.fresh

\* C6 as claimed: when the mail send of a completion command failed, then once
\* the command is handled the operator was sent the failure notice, the
\* submissions log gained one "Email Error" line with the batch's photo count,
\* and pending_photos is empty.
C6_MailFailureReported ==
    (h.ended /\ CompletionCommand(h.u) /\ h.mails # <<>> /\ ~h.mails[1].ok) =>
        /\ Notified(Operator, "EmailError", 0)
        /\ h.logs = <<LogLine(h.u.text[2], Len(h.before), "Email Error")>>
        /\ pending_photos = <<>>

\* C7 as claimed: when create_pdf_from_images raised, no mail was sent for the
\* batch and the operator was sent a failure notice.
C7_AssemblyFailureSurfaced ==
    (h.ended /\ h.raised = "create_pdf_from_images") =>
        /\ h.mails = <<>>
        /\ \E n \in Range(h.sent) :
              n.chat = Operator /\ n.kind \in {"EmailError", "Failure"}

\* C8 as claimed: while the pipeline of a command runs, pending_photos holds
\* none of the photos being processed.
C8_ClearedBeforePipeline ==
    InPipeline => Range(cur.photo_files) \cap Range(pending_photos) = {}

\* C9: a completion command whose document was written makes exactly one
\* mail-send attempt, to RECIPIENTS, with the identifier in the subject, and
\* none before the document is written; a failed attempt is not repeated.
C9_OneMailPerCommand ==
    CompletionCommand(h.u) =>
        /\ (~h.written \/ pc = "mail") => h.mails = <<>>
        /\ (h.written /\ pc # "mail") =>
              /\ Len(h.mails) = 1
              /\ h.mails[1].to = RECIPIENTS
              /\ h.u.text[2] \in Range(h.mails[1].subject)

\* C9 happens: the one attempt of a handled command failed
C9_Witness ==
    /\ h.ended
    /\ CompletionCommand(h.u)
    /\ h.written
    /\ Len(h.mails) = 1
    /\ ~h.mails[1].ok

\* C10 as claimed: a photo of the operator whose download succeeded is
\* appended to the end of pending_photos and acknowledged to the operator
\* with the running count.
C10_PhotoAppendedAndAcknowledged ==
    (h.ended /\ OperatorPhoto(h.u) /\ h.download = "ok") =>
        /\ pending_photos = Append(h.before, h.path)
        /\ Notified(Operator, "PhotoCount", Len(pending_photos))

\* the mail of the handled command was sent
MailSent == h.mails # <<>> /\ h.mails[1].ok

\* C11 as claimed: a completion command that found photos appends exactly one
\* line to the submissions log, with its identifier, the size of the drained
\* batch and the status "Success" iff the mail was sent; the handling of any
\* other update appends nothing.
C11_OneLogLinePerCommand ==
    h.ended =>
        sublog = IF CompletionCommand(h.u) /\ h.before # <<>>
                 THEN Append(h.log_before,
                             LogLine(h.u.text[2], Len(h.drained),
                                     IF MailSent THEN "Success" ELSE "Email Error"))
                 ELSE h.log_before

\* a side of the image exceeds the maximum
Oversized(img) ==
    img.width > MAX_IMAGE_DIMENSION \/ img.height > MAX_IMAGE_DIMENSION

Longer(img) == IF img.width > img.height THEN img.width ELSE img.height
Shorter(img) == IF img.width > img.height THEN img.height ELSE img.width

\* C12 as claimed: compress_image leaves every decodable image that has a side
\* above MAX_IMAGE_DIMENSION with both sides within the maximum, the longer
\* side equal to the maximum and the shorter side equal to
\* floor(shorter * maximum / longer).
C12_OversizedNormalized ==
    [][(image.state = "downloaded" /\ image.readable /\ Oversized(image)) =>
          /\ image'.width <= MAX_IMAGE_DIMENSION
          /\ image'.height <= MAX_IMAGE_DIMENSION
          /\ Longer(image') = MAX_IMAGE_DIMENSION
          /\ Shorter(image') = (Shorter(image) * MAX_IMAGE_DIMENSION) \div Longer(image)
      ]_vars

\* C13 as claimed: originals are moved to the archive only by a completion
\* command whose mail was sent, and then every file of the drained batch is
\* moved; when the mail send failed, the downloaded photos and the document
\* written are where they were.
C13_ArchivedIffMailSent ==
    h.ended =>
        IF CompletionCommand(h.u) /\ MailSent
        THEN \A p \in Range(h.drained) :
                 <<h.u.text[2], p>> \in archive /\ disk[p] = 0
        ELSE /\ archive = h.archive_before
             /\ (CompletionCommand(h.u) /\ h.mails # <<>>) =>
                   /\ disk = h.disk_before
                   /\ pdfs[h.u.text[2]] = [written |-> TRUE, pages |-> h.doc]

\* the place of a step in the order of the pipeline
Rank(step) ==
    CASE step = "normalize" -> 1
      [] step = "page" -> 2
      [] step = "write" -> 3
      [] step = "mail" -> 4
      [] step = "notify" -> 5
      [] step = "log" -> 6
      [] step = "archive" -> 7
      [] step = "clear" -> 8

\* how many times the handling did this step
Count(step) == Cardinality({k \in 1..Len(h.steps) : h.steps[k] = step})

\* C14: within one run of the pipeline no step comes before a step of lower
\* rank: every image of the batch is normalized before the first page is
\* composed, every page is composed and the document written before the one
\* mail attempt, the mail attempt precedes the notification of the outcome,
\* the notification precedes the log line, and the clear of pending_photos
\* comes last, after all of them.
C14_PipelineOrder ==
    /\ \A i, j \in 1..Len(h.steps) : i < j => Rank(h.steps[i]) <= Rank(h.steps[j])
    /\ Count("page") > 0 => Count("normalize") = Len(h.drained)
    /\ Count("write") > 0 => Count("page") = Len(h.drained)
    /\ Count("mail") > 0 => Count("write") = 1
    /\ Count("notify") > 0 => Count("mail") = 1
    /\ Count("log") > 0 => Count("notify") = 1
    /\ Count("clear") > 0 =>
          /\ Count("log") = 1
          /\ Count("clear") = 1
          /\ h.steps[Len(h.steps)] = "clear"
    /\ h.steps # <<>> => CompletionCommand(h.u) /\ h.drained = h.before

\* C14 happens: the pipeline ran to its end on a batch of two images
C14_Witness ==
    /\ h.ended
    /\ Len(h.drained) = 2
    /\ Count("clear") = 1
    /\ Count("archive") = 1

\* the download of the operator's photo failed: download_photo returned False
\* or raised
DownloadFailed(hh) == OperatorPhoto(hh.u) /\ hh.download \in {"false", "raised"}

\* C15 as claimed: when the download of a photo of the operator fails, the
\* failure is logged and pending_photos is left as it was; and the download is
\* never tried again: a file with a photo's content is written only by a
\* successful download in the step that moves the cursor up to that photo's
\* update, and the cursor never moves down.
C15_FailedDownloadAbandoned ==
    [][/\ (h'.ended /\ DownloadFailed(h')) =>
             /\ h'.errors # <<>>
             /\ pending_photos' = h'.before
       /\ last_update_id' >= last_update_id
       /\ \A p \in Paths :
             (disk'[p] # disk[p] /\ disk'[p] # 0) =>
                 /\ h'.download = "ok"
                 /\ h'.u.update_id = disk'[p]
                 /\ last_update_id < disk'[p]
                 /\ last_update_id' = disk'[p]
      ]_vars

\* C16: the updates the loop has taken have strictly increasing ids, so each
\* is handled at most once and in id order, whether its handling raised or
\* not; the cursor is the id of the last update taken, already when its
\* handling begins, so it never decreases; and what a poll has fetched and
\* not yet taken lies above the cursor, in increasing id order.
C16_CursorMonotone ==
    /\ \A i, j \in 1..Len(handled) : i < j => handled[i] < handled[j]
    /\ last_update_id = IF handled = <<>> THEN 0 ELSE handled[Len(handled)]
    /\ handled # <<>> => h.u.update_id = last_update_id
    /\ \A k \in 1..Len(updates) : updates[k].update_id > last_update_id
    /\ \A i, j \in 1..Len(updates) :
          i < j => updates[i].update_id < updates[j].update_id

\* C16 happens: the handling of an update raised, the loop polled again and
\* the answer holds a later update only
C16_Witness ==
    /\ h.ended
    /\ h.raised # ""
    /\ pc = "loop"
    /\ updates # <<>>
    /\ h.u.update_id \in Range(handled)

\* C17: an exception in the handling of an update never stops the poll loop:
\* the thread polls again and again, every update the except clause cut the
\* for loop off from (fetched in the same poll answer as the failing update)
\* is eventually taken by the loop, and so is every update the transport has
\* received, those after a failing update included.
C17_LoopSurvivesException ==
    /\ []<>(pc = "poll")
    /\ \A j \in 1..MaxUpdates : (j \in dropped) ~> (j \in Range(handled))
    /\ \A j \in 1..MaxUpdates : (j < nextId) ~> (j \in Range(handled))

\* C17 happens: an update that was fetched together with a failing update
\* and dropped by the except clause has been handled to its end
C17_Witness ==
    /\ h.ended
    /\ h.u.update_id \in dropped
    /\ h.u.update_id \in Range(handled)
    /\ pc = "poll"

\* a /siteid text of the operator that carries no argument
BareSiteId(u) ==
    /\ u.has_message
    /\ u.chat = Operator
    /\ ~u.photo
    /\ u.text = <<"/siteid">>

\* C18: a /siteid command of the operator without an argument leaves
\* pending_photos as it was, whether empty or not, starts no pipeline, writes
\* no document, sends no mail and adds no line to the submissions log.
C18_BareCommandChangesNothing ==
    BareSiteId(h.u) =>
        /\ pending_photos = h.before
        /\ ~InPipeline
        /\ h.drained = <<>> /\ ~h.written /\ h.doc = <<>>
        /\ h.mails = <<>>
        /\ h.logs = <<>> /\ sublog = h.log_before
        /\ disk = h.disk_before /\ archive = h.archive_before
        /\ h.ended /\ h.raised = "IndexError"

\* C18 happens: a bare /siteid was handled while photos were pending
C18_Witness ==
    /\ h.ended
    /\ BareSiteId(h.u)
    /\ h.before # <<>>
    /\ pending_photos = h.before

\* C19: the paths in pending_photos are pairwise distinct, also when photos
\* are accepted within the same second and after failed downloads and failed
\* commands; so each pending file still holds the photo downloaded to it (a
\* later photo of the batch was written elsewhere), and the document written
\* has a page for each of them, no file twice.
C19_PendingPathsDistinct ==
    /\ \A i, j \in 1..Len(pending_photos) :
          i # j => pending_photos[i] # pending_photos[j]
    /\ pc \notin {"clear"} =>
          \A i, j \in 1..Len(pending_photos) :
              i < j => /\ disk[pending_photos[i]] # 0
                       /\ disk[pending_photos[i]] < disk[pending_photos[j]]
    /\ \A i, j \in 1..Len(h.doc) : i # j => h.doc[i] # h.doc[j]

\* C19 happens: two photos accepted within the same second are pending
C19_Witness ==
    /\ Len(pending_photos) >= 2
    /\ pending_photos[1][1] = pending_photos[2][1]
    /\ pending_photos[1] # pending_photos[2]

====
